---- MODULE Spec2Model ----
(***************************************************************************)
(* State-machine model of pytorch-lmdb's main.py: the AverageMeter         *)
(* accumulator, the ImageFolderLMDB dataset with its lazily opened         *)
(* connection, and the DataLoader pass that main()/train() run over it.    *)
(***************************************************************************)
EXTENDS Integers, Sequences, FiniteSets, TLC

\* ----------------------------------------------------------------- bounds
\* Largest value handed to AverageMeter.update (values range over -1..MaxVal).
MaxVal == 2
\* Largest weight n handed to AverageMeter.update (n ranges over 1..MaxN).
MaxN == 2
\* Most update() calls made on one meter between two resets.
MaxCalls == 3

\* Most samples in an archive (archives hold 1..MaxLen samples).
MaxLen == 3
\* Largest batch size tried (BATCH_SIZE ranges over 1..MaxBatch).
MaxBatch == 2

\* num_workers of the DataLoader.
NumWorkers == 4

\* Largest reading of the clock during a run of main() (readings are 0..MaxClock).
MaxClock == 2
\* Largest reading of the clock during the single call of train() examined
\* on its own.
MaxElapsed == 4

\* The backends main() measures, in order.
DBS == <<"lmdb", "imagefolder">>
\* range(10): timed passes per backend.
NumPasses == 10

VARIABLES
  meter,      \* the AverageMeter object: val, avg, sum, count, avg_values
  calls,      \* history: the <<val, n>> of every update since the last reset
  lastop,     \* history: the last operation applied to the meter
  nupdates,   \* history: updates applied since construction (capped)
  db,         \* the archive on disk: count key, key sequence, records
  transform,  \* the transform the dataset was constructed with
  batch_size, \* BATCH_SIZE
  phase,      \* "new" | "idle" | "pass" | "failed": where main() stands
  ds,         \* per process, its copy of the dataset object (or NoObj)
  batches,    \* the batch sampler's index lists of the running pass
  send_idx,   \* number of batches handed to workers in this pass
  rcvd_idx,   \* number of batches delivered to the consumer in this pass
  index_queues, \* per worker, the batch numbers it still has to fetch
  partial,    \* per worker, the samples fetched for its current batch
  done,       \* batches fetched and not yet delivered: [seq, data]
  passes,     \* history: 1 once a pass has completed, 0 before
  last,       \* history: the most recent get(index) call and its outcome
  seen,       \* history: one earlier get that returned a Sample, kept to
              \* compare later calls with
  opens,      \* history: per process, its open_lmdb calls
  delivered,  \* history: the batches delivered in the current/last pass
  pc,         \* where main() stands: "main" | "passes" | "train" | "step" |
              \* "done" | "crashed"
  todo,       \* the backends the for loop over DBS has not reached yet
  dataset_type, \* the backend being measured ("none" before the first)
  store,      \* the state of that backend's data: "ok" | "missing" | "corrupt"
  npass,      \* train() calls completed in the range(10) loop
  batch_time_avg, \* main's list of per-pass batch-time averages
  data_time_avg,  \* main's list of per-pass data-wait averages
  batch_time_sum, \* main's batch-time total
  data_time_sum,  \* main's data-wait total
  batch_time, \* train's batch-time meter
  data_time,  \* train's data-wait meter
  end,        \* train's local end: the clock reading a step is timed from
  nsteps,     \* train's i: batches of this pass whose step has finished
  bad,        \* the batch of this pass that holds a corrupt record (0: none)
  now,        \* the clock: the latest reading of time.time()
  failure,    \* the exception that left main(), "none" while there is none
  compute,    \* history: the clock time between the two updates of the
              \* last finished step
  finals,     \* history: the meters each train() call of this backend returned
  summaries   \* history: the summaries printed, as [backend, passes]

meterVars == <<meter, calls, lastop, nupdates>>
dataVars == <<db, transform, batch_size, phase, ds, batches, send_idx, rcvd_idx,
              index_queues, partial, done, passes, last, seen, opens,
              delivered>>
driverVars == <<pc, todo, dataset_type, store, npass, batch_time_avg,
                data_time_avg, batch_time_sum, data_time_sum, batch_time,
                data_time, end, nsteps, bad, now, failure, compute, finals,
                summaries>>
vars == <<meter, calls, lastop, nupdates, db, transform, batch_size, phase, ds,
          batches, send_idx, rcvd_idx, index_queues, partial, done, passes,
          last, seen, opens, delivered, pc, todo, dataset_type, store, npass,
          batch_time_avg, data_time_avg, batch_time_sum, data_time_sum,
          batch_time, data_time, end, nsteps, bad, now, failure, compute,
          finals, summaries>>

\* ------------------------------------------------------------ arithmetic
Abs(x) == IF x < 0 THEN 0 - x ELSE x

RECURSIVE GCD(_, _)
GCD(a, b) == IF b = 0 THEN a ELSE GCD(b, a % b)

\* Python's true division a / b on exact values: the rational a/b in lowest
\* terms with a positive denominator (b # 0).
TrueDiv(a, b) ==
  LET g == GCD(Abs(a), Abs(b))
      s == IF b < 0 THEN 0 - 1 ELSE 1
  IN  [num |-> (s * a) \div g, den |-> (s * b) \div g]

\* The integer 0 that reset() stores in avg, as a rational.
Zero == [num |-> 0, den |-> 1]

\* ---------------------------------------------------------- AverageMeter
\* A reset that keeps the old history list.
reset_keeps_history(m) ==
  [val |-> 0, avg |-> Zero, sum |-> 0, count |-> 0,
   avg_values |-> m.avg_values]

\* AverageMeter.reset() on meter m: every field is assigned anew.
reset(m) ==
  [val |-> 0, avg |-> Zero, sum |-> 0, count |-> 0, avg_values |-> <<>>]

\* The object __init__ receives: no statistics yet.
Blank == [val |-> 0, avg |-> Zero, sum |-> 0, count |-> 0, avg_values |-> <<>>]

\* update() without the weight in the sum.
update_unweighted(m, v, n) ==
  LET s == m.sum + v
      c == m.count + n
      a == TrueDiv(s, c)
  IN  [val |-> v, avg |-> a, sum |-> s, count |-> c,
       avg_values |-> Append(m.avg_values, a)]

\* update() that counts every value twice.
update_double_count(m, v, n) ==
  LET s == m.sum + v * n
      c == m.count + 2 * n
      a == TrueDiv(s, c)
  IN  [val |-> v, avg |-> a, sum |-> s, count |-> c,
       avg_values |-> Append(m.avg_values, a)]

\* update() that leaves the history list alone.
update_no_history(m, v, n) ==
  LET s == m.sum + v * n
      c == m.count + n
  IN  [val |-> v, avg |-> TrueDiv(s, c), sum |-> s, count |-> c,
       avg_values |-> m.avg_values]

\* AverageMeter.update(val, n): the meter after the call on meter m.
update(m, v, n) ==
  LET s == m.sum + v * n
      c == m.count + n
      a == TrueDiv(s, c)
  IN  [val |-> v, avg |-> a, sum |-> s, count |-> c,
       avg_values |-> Append(m.avg_values, a)]

\* AverageMeter.__init__: construction calls reset().
MeterInit ==
  /\ meter = reset(Blank)
  /\ calls = <<>>
  /\ lastop = "init"
  /\ nupdates = 0

Values == (0 - 1)..MaxVal
Weights == 1..MaxN

Update ==
  /\ Len(calls) < MaxCalls
  /\ \E v \in Values, n \in Weights :
       /\ meter' = update(meter, v, n)
       /\ calls' = Append(calls, <<v, n>>)
  /\ lastop' = "update"
  /\ nupdates' = IF nupdates < MaxCalls THEN nupdates + 1 ELSE nupdates

Reset ==
  /\ meter' = reset(meter)
  /\ calls' = <<>>
  /\ lastop' = "reset"
  /\ UNCHANGED nupdates


\* ------------------------------------------------------------- archive
Main == 0
Workers == 1..NumWorkers
Contexts == {Main} \cup Workers

\* A well-formed archive of L samples: b'__len__' holds L, b'__keys__' the
\* ordered keys, and every key maps to one record (image bytes, label).
Archive(L) ==
  [len   |-> L,
   keys  |-> [j \in 1..L |-> 10 + (j - 1)],
   store |-> [k \in {10 + (j - 1) : j \in 1..L} |->
                [ok |-> TRUE, image |-> 10 + k, label |-> k % 2]]]

\* ---------------------------------------------------------- the dataset
\* hasattr(self, 'txn') is false.
NoTxn == 0 - 1

\* No dataset object (not constructed yet, or the process holding it exited).
Gone == [alive |-> FALSE, txn |-> NoTxn, length |-> 0, keys |-> <<>>]

\* The count attribute before anything is loaded into it.
Unset == 0 - 1

\* A constructor that only opens the archive and loads nothing.
init_dataset_lazy ==
  [alive |-> TRUE, txn |-> NoTxn, length |-> Unset, keys |-> <<>>]

\* ImageFolderLMDB.__init__: opens the archive, reads the count and the key
\* sequence into the object and keeps no connection.
init_dataset ==
  [alive |-> TRUE, txn |-> NoTxn, length |-> db.len, keys |-> db.keys]

\* open_lmdb taking the count from the store's entry count, which includes
\* the two reserved keys.
open_lmdb_entries(d, c) ==
  [d EXCEPT !.txn = c, !.length = db.len + 2, !.keys = db.keys]

\* open_lmdb that reads the key sequence again but keeps the count read at
\* construction.
open_lmdb_keep_count(d, c) ==
  [d EXCEPT !.txn = c, !.keys = db.keys]

\* ImageFolderLMDB.open_lmdb in process c: a connection of c's own, and the
\* count and key sequence read again through it.
open_lmdb(d, c) ==
  [d EXCEPT !.txn = c, !.length = db.len, !.keys = db.keys]

\* ImageFolderLMDB.__len__
length(d) == d.length

\* A subscript that rejects every negative index.
list_getitem_strict(s, i) ==
  IF 0 <= i /\ i < Len(s) THEN [ok |-> TRUE, item |-> s[i + 1]]
  ELSE [ok |-> FALSE, item |-> 0]

\* Python's list subscript self.keys[index]: negative subscripts count from
\* the end, anything outside -len..len-1 raises IndexError.
list_getitem(s, i) ==
  IF 0 <= i /\ i < Len(s) THEN [ok |-> TRUE, item |-> s[i + 1]]
  ELSE IF 0 - Len(s) <= i /\ i < 0 THEN [ok |-> TRUE, item |-> s[Len(s) + i + 1]]
  ELSE [ok |-> FALSE, item |-> 0]

\* self.transform(img): no transform, or the random crop/flip of main(),
\* whose outcome depends on the draw r.
apply_transform(image, r) ==
  IF transform = "none" THEN [src |-> image, aug |-> 0]
  ELSE [src |-> image, aug |-> 1 + r]

Failure(kind, via) ==
  [kind |-> kind, src |-> 0, aug |-> 0, target |-> 0, via |-> via]

\* __getitem__ taking the key out of the list it reads it from
\* (self.keys.pop(index) for self.keys[index]).
getitem_pop(d, c, index, r) ==
  LET d1 == IF d.txn = NoTxn THEN open_lmdb(d, c) ELSE d
      k  == list_getitem(d1.keys, index)
      n  == Len(d1.keys)
      at == IF index < 0 THEN n + index + 1 ELSE index + 1
      d2 == IF k.ok
            THEN [d1 EXCEPT !.keys = SubSeq(d1.keys, 1, at - 1)
                                       \o SubSeq(d1.keys, at + 1, n)]
            ELSE d1
  IN  IF ~k.ok THEN [obj |-> d1, res |-> Failure("IndexError", d1.txn)]
      ELSE IF k.item \notin DOMAIN db.store
        THEN [obj |-> d2, res |-> Failure("DecodeError", d1.txn)]
      ELSE IF ~db.store[k.item].ok
        THEN [obj |-> d2, res |-> Failure("DecodeError", d1.txn)]
      ELSE LET rec == db.store[k.item]
               img == apply_transform(rec.image, r)
           IN  [obj |-> d2,
                res |-> [kind |-> "sample", src |-> img.src, aug |-> img.aug,
                         target |-> rec.label, via |-> d1.txn]]

\* ImageFolderLMDB.__getitem__(index) in process c on its object d, with r
\* the transform's random draw: the object afterwards and the outcome.
getitem(d, c, index, r) ==
  LET d1 == IF d.txn = NoTxn THEN open_lmdb(d, c) ELSE d
      k  == list_getitem(d1.keys, index)
  IN  IF ~k.ok THEN [obj |-> d1, res |-> Failure("IndexError", d1.txn)]
      ELSE IF k.item \notin DOMAIN db.store
        THEN [obj |-> d1, res |-> Failure("DecodeError", d1.txn)]
      ELSE IF ~db.store[k.item].ok
        THEN [obj |-> d1, res |-> Failure("DecodeError", d1.txn)]
      ELSE LET rec == db.store[k.item]
               img == apply_transform(rec.image, r)
           IN  [obj |-> d1,
                res |-> [kind |-> "sample", src |-> img.src, aug |-> img.aug,
                         target |-> rec.label, via |-> d1.txn]]

\* ------------------------------------------------------- the DataLoader
Draws == {0, 1}
NoCall == [ctx |-> NoTxn, index |-> 0, kind |-> "none", src |-> 0, aug |-> 0,
           target |-> 0, via |-> NoTxn]
NoSample == [kind |-> "none", src |-> 0, aug |-> 0, target |-> 0]
NoneSeen == [index |-> 0 - 1, sample |-> NoSample]
SampleOf(res) ==
  [kind |-> res.kind, src |-> res.src, aug |-> res.aug, target |-> res.target]
CallOf(c, index, res) ==
  [ctx |-> c, index |-> index, kind |-> res.kind, src |-> res.src,
   aug |-> res.aug, target |-> res.target, via |-> res.via]

\* shuffle=True: the sampler's order is a permutation of range(len(dataset)).
Perms(n) ==
  {p \in [1..n -> 0..(n - 1)] : \A i, j \in 1..n : i # j => p[i] # p[j]}

RECURSIVE Chunk_drop_last(_, _)
\* A batch sampler with drop_last set: the short final group is dropped.
Chunk_drop_last(p, B) ==
  IF Len(p) < B THEN <<>>
  ELSE <<SubSeq(p, 1, B)>> \o Chunk_drop_last(SubSeq(p, B + 1, Len(p)), B)

RECURSIVE Chunk(_, _)
\* The batch sampler: consecutive groups of B indices, the last group short
\* when B does not divide the length (drop_last is not set).
Chunk(p, B) ==
  IF p = <<>> THEN <<>>
  ELSE IF Len(p) <= B THEN <<p>>
  ELSE <<SubSeq(p, 1, B)>> \o Chunk(SubSeq(p, B + 1, Len(p)), B)

\* The worker batch number s is handed to: round robin over the workers.
WorkerOf(s) == (s % NumWorkers) + 1

\* Batches handed out before the first one is consumed: two per worker.
Prefetch(nb) == IF nb < 2 * NumWorkers THEN nb ELSE 2 * NumWorkers

\* A loader that hands over whichever batch is fetched first.
Deliverable_any == done

\* The batch numbers the loader may hand to the consumer now: the next one in
\* request order, once it has been fetched.
Deliverable == {b \in done : b.seq = rcvd_idx}

\* The loader's workers start as copies of the constructing process: each
\* holds the dataset object as it was there, an open connection included.
forked == [c \in Contexts |-> ds[Main]]

\* The workers exit with their dataset objects.
reaped == [c \in Contexts |-> IF c = Main THEN ds[c] ELSE Gone]

Record(c, index, g) ==
  /\ last' = CallOf(c, index, g.res)
  /\ seen' \in {seen} \cup
                (IF g.res.kind = "sample" /\ index >= 0
                 THEN {[index |-> index, sample |-> SampleOf(g.res)]} ELSE {})
  /\ opens' = [opens EXCEPT ![c] = @ + (IF g.obj.txn # ds[c].txn THEN 1 ELSE 0)]

DataInit ==
  /\ db \in {Archive(L) : L \in 1..MaxLen}
  /\ transform \in {"none", "random"}
  /\ batch_size \in 1..MaxBatch
  /\ phase = "new"
  /\ ds = [c \in Contexts |-> Gone]
  /\ batches = <<>>
  /\ send_idx = 0
  /\ rcvd_idx = 0
  /\ index_queues = [w \in Workers |-> <<>>]
  /\ partial = [w \in Workers |-> <<>>]
  /\ done = {}
  /\ passes = 0
  /\ last = NoCall
  /\ seen = NoneSeen
  /\ opens = [c \in Contexts |-> 0]
  /\ delivered = <<>>

\* main(): the dataset and its loader are constructed.
Construct ==
  /\ phase = "new"
  /\ ds' = [ds EXCEPT ![Main] = init_dataset]
  /\ phase' = "idle"
  /\ UNCHANGED <<db, transform, batch_size, batches, send_idx, rcvd_idx,
                 index_queues, partial, done, passes, last, seen, opens, delivered>>

\* dataset[index] called directly by the process that constructed it.
ParentGet ==
  /\ phase = "idle"
  /\ \E index \in (0 - MaxLen - 1)..(MaxLen + 1), r \in Draws :
       LET g == getitem(ds[Main], Main, index, r)
       IN  /\ ds' = [ds EXCEPT ![Main] = g.obj]
           /\ Record(Main, index, g)
  /\ UNCHANGED <<db, transform, batch_size, phase, batches, send_idx, rcvd_idx,
                 index_queues, partial, done, passes, delivered>>

\* The loader starts its workers. Where the platform starts processes by
\* fork they are copies of the parent; where it starts them by spawn the
\* dataset object is pickled, which fails once it holds a connection.
StartWorkers ==
  /\ phase = "idle"
  /\ \E method \in {"fork", "spawn"} :
       IF method = "spawn" /\ ds[Main].txn # NoTxn
       THEN phase' = "failed" /\ ds' = ds
       ELSE phase' = "pass" /\ ds' = forked
  /\ last' = NoCall
  /\ UNCHANGED <<db, transform, batch_size, batches, send_idx, rcvd_idx,
                 index_queues, partial, done, passes, seen, opens, delivered>>

\* A worker fetches one sample: dataset[index] for an index of the sampler,
\* any of range(len(dataset)).
WorkerRead(w) ==
  /\ phase = "pass"
  /\ \E index \in 0..(length(ds[Main]) - 1), r \in Draws :
       LET g == getitem(ds[w], w, index, r)
       IN  /\ ds' = [ds EXCEPT ![w] = g.obj]
           /\ Record(w, index, g)
  /\ UNCHANGED <<db, transform, batch_size, phase, batches, send_idx, rcvd_idx,
                 index_queues, partial, done, passes, delivered>>

\* The loader's workers exit at the end of the pass.
StopWorkers ==
  /\ phase = "pass"
  /\ ds' = reaped
  /\ phase' = "idle"
  /\ last' = NoCall
  /\ opens' = [c \in Contexts |-> IF c = Main THEN opens[c] ELSE 0]
  /\ UNCHANGED <<db, transform, batch_size, batches, send_idx, rcvd_idx,
                 index_queues, partial, done, passes, seen, delivered>>

\* enumerate(train_loader): a new iterator draws the pass's order, starts the
\* workers (each a copy of the constructing process, dataset object
\* included) and hands out the first batches.
StartPass ==
  /\ phase = "idle"
  /\ \E p \in Perms(length(ds[Main])) :
       LET bs == Chunk(p, batch_size)
           n  == Prefetch(Len(bs))
       IN  /\ batches' = bs
           /\ send_idx' = n
           /\ index_queues' =
                [w \in Workers |->
                   IF w - 1 < n
                   THEN IF w - 1 + NumWorkers < n
                        THEN <<w - 1, w - 1 + NumWorkers>> ELSE <<w - 1>>
                   ELSE <<>>]
  /\ ds' = forked
  /\ rcvd_idx' = 0
  /\ partial' = [w \in Workers |-> <<>>]
  /\ done' = {}
  /\ delivered' = <<>>
  /\ phase' = "pass"
  /\ UNCHANGED <<db, transform, batch_size, passes, last, seen, opens>>

\* A worker fetches the next sample of its current batch; the finished batch
\* (or the exception that ended it) goes to the result queue.
WorkerGet(w) ==
  /\ phase = "pass"
  /\ index_queues[w] # <<>>
  /\ LET s     == Head(index_queues[w])
         idxs  == batches[s + 1]
         index == idxs[Len(partial[w]) + 1]
     IN  \E r \in Draws :
           LET g == getitem(ds[w], w, index, r)
           IN  /\ ds' = [ds EXCEPT ![w] = g.obj]
               /\ IF g.res.kind # "sample"
                  THEN /\ done' = done \cup
                            {[seq |-> s, ok |-> FALSE, indices |-> idxs,
                              data |-> <<>>]}
                       /\ index_queues' = [index_queues EXCEPT ![w] = Tail(@)]
                       /\ partial' = [partial EXCEPT ![w] = <<>>]
                  ELSE IF Len(partial[w]) + 1 = Len(idxs)
                  THEN /\ done' = done \cup
                            {[seq |-> s, ok |-> TRUE, indices |-> idxs,
                              data |-> Append(partial[w], SampleOf(g.res))]}
                       /\ index_queues' = [index_queues EXCEPT ![w] = Tail(@)]
                       /\ partial' = [partial EXCEPT ![w] = <<>>]
                  ELSE /\ partial' = [partial EXCEPT
                                        ![w] = Append(@, SampleOf(g.res))]
                       /\ UNCHANGED <<done, index_queues>>
  /\ UNCHANGED <<db, transform, batch_size, phase, batches, send_idx, rcvd_idx,
                 passes, delivered, last, seen, opens>>

\* The for loop of train() takes the next batch: the loader hands over a
\* deliverable batch and gives the next index list to a worker; a batch that
\* holds an exception raises it in the consumer.
NextBatch ==
  /\ phase = "pass"
  /\ rcvd_idx < send_idx
  /\ \E b \in Deliverable :
       /\ done' = done \ {b}
       /\ IF b.ok
          THEN /\ delivered' = Append(delivered,
                                      [seq |-> b.seq, indices |-> b.indices])
               /\ rcvd_idx' = rcvd_idx + 1
               /\ IF send_idx < Len(batches)
                  THEN /\ index_queues' =
                            [index_queues EXCEPT
                               ![WorkerOf(send_idx)] = Append(@, send_idx)]
                       /\ send_idx' = send_idx + 1
                  ELSE UNCHANGED <<index_queues, send_idx>>
               /\ UNCHANGED <<phase, ds>>
          ELSE /\ phase' = "failed"
               /\ ds' = reaped
               /\ UNCHANGED <<delivered, rcvd_idx, index_queues, send_idx>>
  /\ UNCHANGED <<db, transform, batch_size, batches, partial, passes, last,
                 seen, opens>>

\* The loader has nothing left to deliver: the for loop ends, the workers
\* exit and train() returns.
EndPass ==
  /\ phase = "pass"
  /\ rcvd_idx >= send_idx
  /\ phase' = "idle"
  /\ passes' = 1
  /\ ds' = reaped
  /\ UNCHANGED <<db, transform, batch_size, batches, send_idx, rcvd_idx,
                 index_queues, partial, done, delivered, last, seen, opens>>

\* --------------------------------------------------------- specifications
\* The part of the state a specification does not exercise stays as built.
DataParked ==
  /\ db = Archive(1)
  /\ transform = "none"
  /\ batch_size = 1
  /\ phase = "new"
  /\ ds = [c \in Contexts |-> Gone]
  /\ batches = <<>>
  /\ send_idx = 0
  /\ rcvd_idx = 0
  /\ index_queues = [w \in Workers |-> <<>>]
  /\ partial = [w \in Workers |-> <<>>]
  /\ done = {}
  /\ passes = 0
  /\ last = NoCall
  /\ seen = NoneSeen
  /\ opens = [c \in Contexts |-> 0]
  /\ delivered = <<>>

\* ------------------------------------------------------------- main()
\* len(train_loader): batches in one pass over L samples in batches of B.
len_loader(L, B) == Len(Chunk([j \in 1..L |-> j - 1], B))

\* Batches per pass of the measured datasets.
NumBatches == len_loader(MaxLen, MaxBatch)

\* time.time() under a non-decreasing clock: a reading not before the last one.
time(cap) == now..cap

\* now - end, measured the wrong way round.
elapsed_backwards(t, e) == e - t

\* time.time() - end.
elapsed(t, e) == t - e

\* batch_time_sum = batch_time.sum: the total overwritten, not added to.
add_sum_last(total, m) == m.sum

\* batch_time_sum += batch_time.sum.
add_sum(total, m) == total + m.sum

\* batch_time_avg.append(batch_time.sum).
append_avg_sum(l, m) == Append(l, [num |-> m.sum, den |-> 1])

\* batch_time_avg.append(batch_time.avg).
append_avg(l, m) == Append(l, m.avg)

\* A meter that train() takes over from the call before.
AverageMeter_kept(m) == m

\* AverageMeter(): a new object, whatever the name was bound to before.
AverageMeter(m) == reset(Blank)

\* A range() that also yields its stop value.
in_range_inclusive(n, stop) == n <= stop

\* range(stop) has a value left after n of them were taken.
in_range(n, stop) == n < stop

\* main() up to the loop over DBS; nothing is measured yet.
DriverInit ==
  /\ pc = "main"
  /\ todo = DBS
  /\ dataset_type = "none"
  /\ store = "ok"
  /\ npass = 0
  /\ batch_time_avg = <<>>
  /\ data_time_avg = <<>>
  /\ batch_time_sum = 0
  /\ data_time_sum = 0
  /\ batch_time = Blank
  /\ data_time = Blank
  /\ end = 0
  /\ nsteps = 0
  /\ bad = 0
  /\ now = 0
  /\ failure = "none"
  /\ compute = 0
  /\ finals = <<>>
  /\ summaries = <<>>

\* One turn of the loop over DBS up to the range(10) loop: the dataset is
\* constructed (an archive or folder that is not there raises, and nothing
\* in main() catches it), the loader is made, the aggregates start empty.
StartBackend ==
  /\ pc = "main"
  /\ todo # <<>>
  /\ dataset_type' = Head(todo)
  /\ todo' = Tail(todo)
  /\ \E s \in {"ok", "missing", "corrupt"} :
       /\ store' = s
       /\ IF s = "missing"
          THEN /\ pc' = "crashed"
               /\ failure' = "StorageUnavailable"
               /\ UNCHANGED <<npass, batch_time_avg, data_time_avg,
                              batch_time_sum, data_time_sum, finals>>
          ELSE /\ pc' = "passes"
               /\ npass' = 0
               /\ batch_time_avg' = <<>>
               /\ data_time_avg' = <<>>
               /\ batch_time_sum' = 0
               /\ data_time_sum' = 0
               /\ finals' = <<>>
               /\ UNCHANGED failure
  /\ UNCHANGED <<batch_time, data_time, end, nsteps, bad, now, compute, summaries>>

\* train() is called and runs up to its loop: new meters, end = time.time().
\* The sampler's shuffle decides which batch a corrupt record falls into.
StartTrain(cap) ==
  /\ pc = "passes"
  /\ in_range(npass, NumPasses)
  /\ batch_time' = AverageMeter(batch_time)
  /\ data_time' = AverageMeter(data_time)
  /\ \E t \in time(cap) : now' = t /\ end' = t
  /\ nsteps' = 0
  /\ bad' \in IF store = "corrupt" THEN 1..NumBatches ELSE {0}
  /\ pc' = "train"
  /\ UNCHANGED <<todo, dataset_type, store, npass, batch_time_avg,
                 data_time_avg, batch_time_sum, data_time_sum, failure,
                 compute, finals, summaries>>

\* The loader hands over the next batch and data_time is updated; a batch
\* with a corrupt record raises instead, through train() and main().
Fetch(cap) ==
  /\ pc = "train"
  /\ nsteps < NumBatches
  /\ IF bad = nsteps + 1
     THEN /\ pc' = "crashed"
          /\ failure' = "DecodeError"
          /\ UNCHANGED <<data_time, now>>
     ELSE /\ \E t \in time(cap) :
               /\ now' = t
               /\ data_time' = update(data_time, elapsed(t, end), 1)
          /\ pc' = "step"
          /\ UNCHANGED failure
  /\ UNCHANGED <<todo, dataset_type, store, npass, batch_time_avg,
                 data_time_avg, batch_time_sum, data_time_sum, batch_time,
                 end, nsteps, bad, compute, finals, summaries>>

\* The rest of the loop body: the training step, batch_time is updated,
\* end = time.time().
Step(cap) ==
  /\ pc = "step"
  /\ \E t \in time(cap) :
       /\ batch_time' = update(batch_time, elapsed(t, end), 1)
       /\ compute' = t - now
       /\ \E u \in t..cap : now' = u /\ end' = u
  /\ nsteps' = nsteps + 1
  /\ pc' = "train"
  /\ UNCHANGED <<todo, dataset_type, store, npass, batch_time_avg,
                 data_time_avg, batch_time_sum, data_time_sum, data_time, bad,
                 failure, finals, summaries>>

\* The loader is exhausted: train() returns its two meters and main() adds
\* them to the aggregates.
EndTrain ==
  /\ pc = "train"
  /\ nsteps = NumBatches
  /\ batch_time_avg' = append_avg(batch_time_avg, batch_time)
  /\ data_time_avg' = append_avg(data_time_avg, data_time)
  /\ batch_time_sum' = add_sum(batch_time_sum, batch_time)
  /\ data_time_sum' = add_sum(data_time_sum, data_time)
  /\ npass' = npass + 1
  /\ finals' = Append(finals, [batch |-> batch_time, data |-> data_time])
  /\ pc' = "passes"
  /\ UNCHANGED <<todo, dataset_type, store, batch_time, data_time, end, nsteps,
                 bad, now, failure, compute, summaries>>

\* The range(10) loop is over: the summary is printed and the loop over DBS
\* goes on, or main() returns.
Summary ==
  /\ pc = "passes"
  /\ ~in_range(npass, NumPasses)
  /\ summaries' = Append(summaries, [backend |-> dataset_type, passes |-> npass])
  /\ pc' = IF todo = <<>> THEN "done" ELSE "main"
  /\ UNCHANGED <<todo, dataset_type, store, npass, batch_time_avg,
                 data_time_avg, batch_time_sum, data_time_sum, batch_time,
                 data_time, end, nsteps, bad, now, failure, compute, finals>>

InitDriver == MeterInit /\ DataParked /\ DriverInit

NextDriver ==
  \/ StartBackend /\ UNCHANGED <<meterVars, dataVars>>
  \/ StartTrain(MaxClock) /\ UNCHANGED <<meterVars, dataVars>>
  \/ Fetch(MaxClock) /\ UNCHANGED <<meterVars, dataVars>>
  \/ Step(MaxClock) /\ UNCHANGED <<meterVars, dataVars>>
  \/ EndTrain /\ UNCHANGED <<meterVars, dataVars>>
  \/ Summary /\ UNCHANGED <<meterVars, dataVars>>

\* main(): every backend of DBS, ten passes each, then its summary.
SpecDriver == InitDriver /\ [][NextDriver]_vars

\* The first call of train(), with a finer clock.
NextTrain ==
  \/ StartBackend /\ UNCHANGED <<meterVars, dataVars>>
  \/ npass = 0 /\ StartTrain(MaxElapsed) /\ UNCHANGED <<meterVars, dataVars>>
  \/ Fetch(MaxElapsed) /\ UNCHANGED <<meterVars, dataVars>>
  \/ Step(MaxElapsed) /\ UNCHANGED <<meterVars, dataVars>>
  \/ EndTrain /\ UNCHANGED <<meterVars, dataVars>>

SpecTrain == InitDriver /\ [][NextTrain]_vars

InitMeter == MeterInit /\ DataParked /\ DriverInit

NextMeter ==
  \/ Update /\ UNCHANGED <<dataVars, driverVars>>
  \/ Reset /\ UNCHANGED <<dataVars, driverVars>>

\* The AverageMeter under any sequence of update and reset calls.
SpecMeter == InitMeter /\ [][NextMeter]_vars

Init == DataInit /\ MeterInit /\ DriverInit

NextDataset ==
  \/ Construct /\ UNCHANGED <<meterVars, driverVars>>
  \/ ParentGet /\ UNCHANGED <<meterVars, driverVars>>
  \/ StartWorkers /\ UNCHANGED <<meterVars, driverVars>>
  \/ (\E w \in Workers : WorkerRead(w)) /\ UNCHANGED <<meterVars, driverVars>>
  \/ StopWorkers /\ UNCHANGED <<meterVars, driverVars>>

\* The dataset object under direct calls and under the loader's workers,
\* which fetch the sampler's indices in any order.
SpecDataset == Init /\ [][NextDataset]_vars

\* Another program rewrites the archive while the dataset object exists (the
\* archive is opened read-only and without locks).
ArchiveRewritten ==
  /\ phase \in {"idle", "pass"}
  /\ db' \in {Archive(L) : L \in 1..MaxLen} \ {db}
  /\ UNCHANGED <<transform, batch_size, phase, ds, batches, send_idx, rcvd_idx,
                 index_queues, partial, done, passes, last, seen, opens,
                 delivered>>

\* Batch size and transform play no part in what the object reads.
InitRewritten == Init /\ batch_size = 1 /\ transform = "none"

\* No earlier call is kept for comparison here.
NextRewritten ==
  \/ NextDataset /\ seen' = seen
  \/ ArchiveRewritten /\ UNCHANGED <<meterVars, driverVars>>

\* The dataset object over an archive that changes between its reads.
SpecRewritten == InitRewritten /\ [][NextRewritten]_vars

Next ==
  \/ Construct /\ UNCHANGED <<meterVars, driverVars>>
  \/ StartPass /\ UNCHANGED <<meterVars, driverVars>>
  \/ (\E w \in Workers : WorkerGet(w)) /\ UNCHANGED <<meterVars, driverVars>>
  \/ NextBatch /\ UNCHANGED <<meterVars, driverVars>>
  \/ EndPass /\ UNCHANGED <<meterVars, driverVars>>

\* The loader's passes over the dataset: sampler, workers, delivery.
Spec == Init /\ [][Next]_vars

\* ------------------------------------------------------------- claims
RECURSIVE SumWeighted(_)
SumWeighted(cs) ==
  IF cs = <<>> THEN 0 ELSE cs[1][1] * cs[1][2] + SumWeighted(Tail(cs))

RECURSIVE SumWeights(_)
SumWeights(cs) ==
  IF cs = <<>> THEN 0 ELSE cs[1][2] + SumWeights(Tail(cs))

\* C1: after k >= 1 updates (v_i, n_i), n_i >= 1, since construction or the
\* last reset, sum = SUM v_i*n_i, count = SUM n_i and avg = sum/count exactly.
C1_MeterSums ==
  Len(calls) >= 1 =>
    /\ meter.sum = SumWeighted(calls)
    /\ meter.count = SumWeights(calls)
    /\ meter.count > 0
    /\ meter.avg.den > 0
    /\ meter.avg.num * meter.count = meter.sum * meter.avg.den

\* A meter that took several updates, one of them weighted, with a
\* non-integral average.
C1_Witness ==
  /\ Len(calls) >= 2
  /\ \E i \in 1..Len(calls) : calls[i][2] >= 2
  /\ meter.avg.den > 1

\* C2: reset() in any reachable meter state leaves current=0, average=0,
\* sum=0, count=0 and an empty history; a new meter is in that same state.
C2_ResetZero ==
  lastop \in {"init", "reset"} =>
    /\ meter.val = 0
    /\ meter.avg = [num |-> 0, den |-> 1]
    /\ meter.sum = 0
    /\ meter.count = 0
    /\ meter.avg_values = <<>>

\* A reset that came after updates.
C2_Witness == lastop = "reset" /\ nupdates >= 2 /\ meter.count = 0

\* The record the archive holds for position i (0-based) of its key sequence.
RecordAt(i) == db.store[db.keys[i + 1]]

\* C3 (as stated): get(index) fails with IndexOutOfRange for every index
\* outside 0 <= index < length(), negative indices included, and returns no
\* Sample then.
C3_OutOfRangeFails ==
  (last.kind # "none"
     /\ ~(0 <= last.index /\ last.index < length(ds[last.ctx])))
    => last.kind = "IndexError"

\* C3 (amended): get(index) fails with IndexOutOfRange exactly when
\* index >= length() or index < -length(); an index in -length()..-1 returns
\* the Sample at index + length(), an index in 0..length()-1 the Sample at
\* index.
C3_IndexErrorOutsideWrap ==
  last.kind # "none" =>
    LET n == length(ds[last.ctx])
        i == last.index
    IN  /\ (i >= n \/ i < 0 - n) => last.kind = "IndexError"
        /\ (0 <= i /\ i < n) =>
             /\ last.kind = "sample"
             /\ last.src = RecordAt(i).image
             /\ last.target = RecordAt(i).label
        /\ (0 - n <= i /\ i < 0) =>
             /\ last.kind = "sample"
             /\ last.src = RecordAt(i + n).image
             /\ last.target = RecordAt(i + n).label

\* A negative index that returned a Sample.
C3_Witness ==
  /\ last.ctx = Main
  /\ last.index < 0
  /\ last.kind = "sample"
  /\ length(ds[Main]) >= 2

\* C4: lazy open happens exactly once per worker: a process that has called
\* get(index) has established its connection, itself and once.
C4_LazyOpenOnce ==
  /\ \A c \in Contexts : opens[c] <= 1
  /\ last.kind # "none" =>
       /\ opens[last.ctx] = 1
       /\ ds[last.ctx].txn = last.ctx

\* C5: handle isolation: every read goes through a connection that the
\* reading process created itself.
C5_HandleIsolation ==
  last.kind # "none" => last.via = last.ctx

\* C6 (as stated): constructing the dataset loads neither the sample count
\* nor the key sequence; both stay unloaded until the first get(index).
C6_ConstructLoadsNothing ==
  (ds[Main].alive /\ opens[Main] = 0) =>
    /\ ds[Main].length = Unset
    /\ ds[Main].keys = <<>>

\* C6 (amended): constructing the dataset loads the sample count and the
\* ordered key sequence; what stays unestablished until the first
\* get(index) is the connection.
C6_ConstructLoadsIndex ==
  (ds[Main].alive /\ opens[Main] = 0) =>
    /\ ds[Main].txn = NoTxn
    /\ ds[Main].length = db.len
    /\ ds[Main].keys = db.keys

\* A constructed dataset nobody has read from yet.
C6_Witness ==
  /\ phase = "idle"
  /\ ds[Main].alive
  /\ opens[Main] = 0
  /\ Len(ds[Main].keys) >= 2

\* C7: length() is the value stored under the count key, on every dataset
\* object, before and after its lazy open and across its get calls.
C7_LengthConstant ==
  \A c \in Contexts : ds[c].alive => length(ds[c]) = db.len

\* A worker that has opened lazily and read, beside a parent that has not.
C7_Witness ==
  /\ ds[Main].alive
  /\ ds[Main].txn = NoTxn
  /\ \E w \in Workers : ds[w].txn = w /\ last.ctx = w /\ last.kind = "sample"

\* C8 (as stated): any two get(index) calls for a valid index return
\* identical Samples.
C8_ReadsIdentical ==
  (last.kind = "sample" /\ last.index >= 0 /\ seen.index = last.index)
    => SampleOf(last) = seen.sample

\* C8 (amended): any two get(index) calls for a valid index return the same
\* label and the same source image, and identical Samples when the dataset
\* has no transform; a get call leaves the count and the key sequence of the
\* dataset object as they were.
C8_ReadsRepeatable ==
  /\ (last.kind = "sample" /\ last.index >= 0 /\ seen.index = last.index) =>
       /\ last.src = seen.sample.src
       /\ last.target = seen.sample.target
       /\ transform = "none" => SampleOf(last) = seen.sample
  /\ \A c \in Contexts :
       ds[c].alive => ds[c].keys = db.keys /\ ds[c].length = db.len

\* Two reads of one index, the later one by a worker, with different images.
C8_Witness ==
  /\ last.kind = "sample"
  /\ last.ctx \in Workers
  /\ last.index >= 0
  /\ seen.index = last.index
  /\ seen.sample.aug # last.aug

RECURSIVE Flatten(_)
Flatten(bs) == IF bs = <<>> THEN <<>> ELSE Head(bs).indices \o Flatten(Tail(bs))

\* C9: a completed pass over a dataset of length L with batch size B has
\* delivered ceil(L/B) batches, all of size B except possibly the last, and
\* their indices are 0..L-1, each once.
C9_BatchesPartition ==
  (phase = "idle" /\ passes = 1) =>
    LET L  == length(ds[Main])
        B  == batch_size
        nb == (L + B - 1) \div B
        fl == Flatten(delivered)
    IN  /\ Len(delivered) = nb
        /\ \A j \in 1..Len(delivered) :
             /\ Len(delivered[j].indices) >= 1
             /\ Len(delivered[j].indices) <= B
             /\ j < Len(delivered) => Len(delivered[j].indices) = B
        /\ Len(fl) = L
        /\ \A i \in 0..(L - 1) : Cardinality({k \in 1..Len(fl) : fl[k] = i}) = 1

\* A completed pass whose last batch is short.
C9_Witness ==
  /\ phase = "idle"
  /\ passes = 1
  /\ Len(delivered) >= 2
  /\ Len(delivered[Len(delivered)].indices) < batch_size

\* C10: the request sequence numbers of the batches delivered in a pass are
\* strictly increasing, whatever order the workers finish in.
C10_DeliveryInOrder ==
  \A j, k \in 1..Len(delivered) : j < k => delivered[j].seq < delivered[k].seq

\* A batch was delivered, and a later batch is fetched and held back while
\* the next one in order is not fetched yet.
C10_Witness ==
  /\ Len(delivered) >= 1
  /\ \E b \in done : b.seq > rcvd_idx
  /\ \A b \in done : b.seq # rcvd_idx

\* C18: every update(value, n) sets current to value and appends one entry,
\* the new average, to the history: the history is as long as the updates
\* since the last reset, entry i is the average after the first i of them,
\* and the last entry is avg.
C18_HistoryTracksUpdates ==
  /\ Len(meter.avg_values) = Len(calls)
  /\ \A i \in 1..Len(calls) :
       meter.avg_values[i] =
         TrueDiv(SumWeighted(SubSeq(calls, 1, i)), SumWeights(SubSeq(calls, 1, i)))
  /\ Len(calls) >= 1 =>
       /\ meter.val = calls[Len(calls)][1]
       /\ meter.avg_values[Len(calls)] = meter.avg

\* A history of several differing averages.
C18_Witness ==
  /\ Len(meter.avg_values) >= 3
  /\ meter.avg_values[1] # meter.avg_values[2]
  /\ meter.avg_values[2] # meter.avg_values[3]
  /\ lastop = "update"

\* C17 (as stated): when the count a worker reads at its lazy open differs
\* from the count read at construction, get fails with StorageUnavailable.
C17_MismatchFails ==
  (/\ last.kind # "none"
   /\ last.ctx \in Workers
   /\ ds[Main].txn = NoTxn
   /\ ds[last.ctx].txn = last.ctx
   /\ length(ds[last.ctx]) # length(ds[Main]))
    => last.kind = "StorageUnavailable"

\* C17 (amended): get never fails with StorageUnavailable over a changed
\* count: the lazy open replaces count and key sequence together by the ones
\* it reads, and the call goes on with them (IndexOutOfRange exactly when the
\* index lies outside the key sequence the object now holds).
C17_MismatchAdopted ==
  /\ last.kind # "StorageUnavailable"
  /\ \A c \in Contexts : ds[c].alive => length(ds[c]) = Len(ds[c].keys)
  /\ last.kind # "none" =>
       LET n == Len(ds[last.ctx].keys)
       IN  (last.index >= n \/ last.index < 0 - n) <=> last.kind = "IndexError"

\* A worker whose lazy open read another count than construction did, and
\* whose get returned a Sample.
C17_Witness ==
  /\ last.ctx \in Workers
  /\ last.kind = "sample"
  /\ ds[Main].txn = NoTxn
  /\ ds[last.ctx].txn = last.ctx
  /\ length(ds[last.ctx]) # length(ds[Main])

\* main() is still running: it has neither returned nor been left by an
\* exception.
Running == pc \in {"main", "passes", "train", "step"}

\* C11: when a backend's dataset fails to open (StorageUnavailable) and later
\* backends remain in the list, the driver goes on to measure them instead
\* of terminating.
C11_OpenFailureSkipsBackend ==
  (failure = "StorageUnavailable" /\ todo # <<>>) => Running

\* C12: a DecodeError raised while a pass is being consumed ends that pass
\* only; the driver is not terminated by it and goes on measuring.
C12_DecodeErrorEndsPassOnly ==
  failure = "DecodeError" => Running

\* The place in DBS of the backend being measured (0 before the first).
Position == Len(DBS) - Len(todo)

\* C13: summaries come in the order of DBS, one per backend, each after
\* exactly NumPasses completed passes; while a backend is being measured
\* every backend before it has been summarised and no later one has; main()
\* has returned exactly when the last backend has been summarised.
C13_DriverOrdering ==
  /\ Len(summaries) <= Len(DBS)
  /\ \A j \in 1..Len(summaries) :
       /\ summaries[j].backend = DBS[j]
       /\ summaries[j].passes = NumPasses
  /\ pc \in {"passes", "train", "step"} =>
       /\ dataset_type = DBS[Position]
       /\ Len(summaries) = Position - 1
       /\ npass <= NumPasses
  /\ pc = "main" => Len(summaries) = Position
  /\ pc = "done" <=> Len(summaries) = Len(DBS)

C13_Witness ==
  /\ pc = "done"
  /\ Len(summaries) = 2
  /\ summaries[2].backend = "imagefolder"

RECURSIVE SumBatch(_)
SumBatch(fs) == IF fs = <<>> THEN 0 ELSE fs[1].batch.sum + SumBatch(Tail(fs))

RECURSIVE SumData(_)
SumData(fs) == IF fs = <<>> THEN 0 ELSE fs[1].data.sum + SumData(Tail(fs))

\* The summary of the backend being measured has just been printed.
Summarised ==
  /\ pc \in {"main", "done"}
  /\ summaries # <<>>
  /\ summaries[Len(summaries)].backend = dataset_type

\* C14: main's aggregates describe the passes of the current backend and
\* nothing else: each list of pass averages has one entry per completed
\* pass, the final average of that pass's meter, in pass order; each total is
\* the sum of the pass meters' sums; at the summary that is NumPasses passes.
C14_Aggregation ==
  pc \in {"main", "passes", "train", "step", "done"} /\ dataset_type # "none" =>
    /\ Len(finals) = npass
    /\ Len(batch_time_avg) = npass
    /\ Len(data_time_avg) = npass
    /\ \A j \in 1..npass :
         /\ batch_time_avg[j] = finals[j].batch.avg
         /\ data_time_avg[j] = finals[j].data.avg
         /\ finals[j].batch.count = NumBatches
         /\ finals[j].data.count = NumBatches
    /\ batch_time_sum = SumBatch(finals)
    /\ data_time_sum = SumData(finals)
    /\ Summarised => npass = NumPasses

C14_Witness ==
  /\ Summarised
  /\ dataset_type = "imagefolder"
  /\ Len(batch_time_avg) = NumPasses
  /\ batch_time_sum > 0
  /\ \E j \in 1..NumPasses : batch_time_avg[j] # Zero /\ batch_time_avg[j].den # 1

\* C15: every pass starts with both meters in the zero state, whatever the
\* pass before left in them, and a pass's meters count only the batches of
\* that pass: inside a pass the counts follow the batches of this pass, and
\* after the first step the sum is the one value recorded in this pass.
C15_FreshMeters ==
  /\ (pc = "train" /\ nsteps = 0) =>
       /\ batch_time = reset(Blank)
       /\ data_time = reset(Blank)
  /\ pc \in {"train", "step"} =>
       /\ batch_time.count = nsteps
       /\ Len(batch_time.avg_values) = nsteps
       /\ data_time.count <= NumBatches
       /\ nsteps = 1 => batch_time.sum = batch_time.val

\* A pass starts right after a pass that recorded something.
C15_Witness ==
  /\ pc = "train"
  /\ nsteps = 0
  /\ npass >= 1
  /\ finals[npass].batch.sum > 0
  /\ finals[npass].data.sum > 0
  /\ batch_time = reset(Blank)

\* C16: with a clock that never runs backwards, when a step has finished
\* the batch time it recorded is the data-wait time it recorded plus the
\* clock time between the two updates (the compute time), so it is not less
\* than the data-wait time, and the batch-time sum of the pass so far is not
\* less than its data-wait sum.
C16_BatchIsWaitPlusCompute ==
  (pc \in {"train", "passes"} /\ batch_time.count >= 1) =>
    /\ compute >= 0
    /\ batch_time.val = data_time.val + compute
    /\ batch_time.val >= data_time.val
    /\ data_time.val >= 0
    /\ batch_time.sum >= data_time.sum

\* The second step of a pass has finished; it waited and it computed, and
\* so did the step before.
C16_Witness ==
  /\ pc = "train"
  /\ nsteps = 2
  /\ data_time.val > 0
  /\ compute > 0
  /\ data_time.sum > data_time.val
  /\ batch_time.sum > data_time.sum + compute

\* Batches the loader has handed to train() in the running or last pass.
Fetched == IF pc = "step" THEN nsteps + 1 ELSE nsteps

\* C19: inside a pass the data-wait count is the number of batches handed
\* over and the batch-time count the number of finished steps: the two are
\* equal, or the data-wait count is one ahead between the two updates of a
\* step; when train() has returned both equal the batches of the pass.
C19_MetersInStep ==
  /\ pc \in {"train", "step"} =>
       /\ data_time.count = Fetched
       /\ batch_time.count = nsteps
       /\ data_time.count = batch_time.count + (IF pc = "step" THEN 1 ELSE 0)
  /\ (pc = "passes" /\ npass >= 1) =>
       /\ data_time.count = NumBatches
       /\ batch_time.count = NumBatches
       /\ nsteps = NumBatches

\* Between the two updates of the second step.
C19_Witness ==
  /\ pc = "step"
  /\ nsteps = 1
  /\ data_time.count = 2
  /\ batch_time.count = 1

====
